---------------------------- MODULE Spec2Model ----------------------------
(***************************************************************************)
(* A model of graph-builder's main.rs: the startup sequence of main (the   *)
(* metrics gate, the shared state, the graph scraper thread, the three     *)
(* HTTP servers and their join) and of ensure_registered_metrics.          *)
(*                                                                         *)
(* graph::run, graph::State's accessors and the request handlers live in   *)
(* the graph_builder library crate; what the model says of them follows    *)
(* the written specification (sections 4.1, 4.3, 4.5).                     *)
(*                                                                         *)
(* Library semantics the model relies on:                                  *)
(*  - parking_lot::RwLock: any number of readers or one writer;            *)
(*  - actix-web 4 / actix-server 2: HttpServer::bind opens the listening   *)
(*    socket, run() only builds the Server future, and the server starts   *)
(*    its accept loop and workers when that future is first polled, that   *)
(*    is inside future::try_join3(..).await;                               *)
(*  - futures::future::try_join3: resolves to Err as soon as one of the    *)
(*    three futures resolves to Err, and to Ok once all three resolved Ok; *)
(*  - `?` in main returns the error from main, which ends the process      *)
(*    (and with it every other thread) with a non-zero exit status;        *)
(*  - std::thread::spawn with the JoinHandle dropped: the thread is        *)
(*    detached, and a panic in it unwinds and ends that thread only;       *)
(*  - opentelemetry: mark_span_as_active puts the span into the thread's   *)
(*    current Context until the guard it returns is dropped;               *)
(*    Context::current() clones that Context, which shares the span;       *)
(*    FutureExt::with_context(cx) attaches cx around every poll of the     *)
(*    future; a span ends when the last Context that holds it is dropped.  *)
(*                                                                         *)
(* Specifications: Spec is the whole process; FairSpec adds fair           *)
(* scheduling of main and the graph scraper thread; GateSpec is            *)
(* ensure_registered_metrics alone; HandlerSpec is the handling of one     *)
(* request after another by the three Apps, for every value of the shared  *)
(* state; ConcSpec and FairConcSpec are the publish_graph calls of the     *)
(* graph scraper thread next to the read_graph calls of several handlers.  *)
(***************************************************************************)
EXTENDS Naturals, Sequences, FiniteSets, TLC

VARIABLES
    pc,               \* the statement of main that runs next, or how main ended
    exit_error,       \* the error main returned, NoError while it has not
    metrics_prefix,   \* the prefix handed to ensure_registered_metrics
    metrics_required, \* settings.metrics_required
    registry,         \* the metric families registered on the registry
    plugins_built,    \* validate_and_build_plugins has run its registrations
    graph_registered, \* graph::register_metrics has run its registrations
    gate_log,         \* one entry per evaluation of the metrics gate
    handles,          \* the clones of `state` moved into the thread and the servers
    store,            \* the fields behind each handle: json_graph, secondary_metadata, live, ready
    json_lock,        \* the RwLock of json_graph, per store
    published,        \* the documents whose publish_graph call has completed
    r_pc,             \* the graph scraper thread's position in graph::run
    r_doc,            \* the document the current cycle obtained from the plugins
    r_pos,            \* the words of json_graph the publish in progress has written
    srv,              \* the three servers
    last_response,    \* the response the process sent last, NoResponse before the first
    rd_pc,            \* each request handler's position in read_graph
    rd_buf,           \* the copy of json_graph a handler is building
    rd_hist,          \* per handler: the read_graph calls it made and what they returned
    path_prefix,      \* settings.path_prefix
    request,          \* the request a worker of a server is handling, NoRequest if none
    span,             \* the "request" span of that request: not started, started or ended
    current           \* the span of the worker thread's current tracing context

\* What the handling of a request works on, besides the shared state
http == <<path_prefix, request, span, current>>

vars == <<pc, exit_error, metrics_prefix, metrics_required, registry,
          plugins_built, graph_registered, gate_log, handles, store,
          json_lock, published, r_pc, r_doc, r_pos, srv, last_response, rd_pc, rd_buf,
          rd_hist, http>>

-----------------------------------------------------------------------------
(* Bounds of the model *)

\* the number of distinct documents the plugin pipeline can produce
NumDocs == 2

\* the number of concurrent request handlers reading the graph
NumReaders == 1

\* the number of times the future of a request is polled and is not ready
MaxPolls == 1

\* the number of request handlers that call read_graph, each once, in any
\* order and overlap
NumConcurrent == 2

-----------------------------------------------------------------------------
(* Values *)

NoHandle == "none"

NoError == [kind |-> "none"]

NoResponse == [listener |-> "none"]

\* No request is being handled
NoRequest == [listener |-> "none", stage |-> "none"]

Listeners == {"status", "main", "public"}

Readers == 1..NumReaders

\* config::METRICS_PREFIX, as the test serve_metrics_basic spells it
METRICS_PREFIX == "cincinnati_gb"

\* A metric family of the registry: its name is all the gate reads.
Family(name, kind) == [name |-> name, kind |-> kind]

\* Families a plugin chain may register while it is built
PluginFamilies == {Family("cincinnati_gb_plugin_metric", "counter")}

\* Families graph::register_metrics registers
GraphFamilies == {Family("cincinnati_gb_graph_metric", "gauge")}

\* The names settings.metrics_required is drawn from
RequiredUniverse == {"plugin_metric", "graph_metric"}

-----------------------------------------------------------------------------
(* ensure_registered_metrics *)

Ok == [ok |-> TRUE]

\* bail of ensure!: "Required metric '{}' has not been registered: {:#?}"
Err(required_metric, registered_metric_names) ==
    [ok |-> FALSE, kind |-> "gate", missing |-> required_metric,
     registered |-> registered_metric_names]

\* A faulty variant of FormatName: the separator is left out
FormatNameNoSeparator(prefix, name) == prefix \o name

\* format!("{}_{}", metrics_prefix, required_metric)
FormatName(prefix, name) == prefix \o "_" \o name

\* registry.gather().iter().map(get_name).map(Into::into).collect::<HashSet<String>>()
RegisteredMetricNames(reg) == {f.name : f \in reg}

\* The orders in which a HashSet's iterator may yield its elements
Orders(S) ==
    {o \in [1..Cardinality(S) -> S] : \A i, j \in 1..Cardinality(S) : o[i] = o[j] => i = j}

\* Iterator::try_for_each: stops at the first element whose closure fails
RECURSIVE TryForEach(_, _, _)
TryForEach(order, names, prefix) ==
    IF order = <<>> THEN Ok
    ELSE IF FormatName(prefix, Head(order)) \in names
         THEN TryForEach(Tail(order), names, prefix)
         ELSE Err(Head(order), names)

\* ensure_registered_metrics(registry, metrics_prefix, metrics_required), with
\* the order in which metrics_required is iterated
ensure_registered_metrics(reg, prefix, order) ==
    TryForEach(order, RegisteredMetricNames(reg), prefix)

-----------------------------------------------------------------------------
(* The shared state *)

\* `state`, the one instance main builds, and the place a copy of its content
\* would live
State == "state"

StoreIds == {State, "copy"}

\* The words of a String value, in the order they are written and copied: a
\* value is replaced and cloned word by word, not in one step
Words == <<"ptr", "len">>

\* String::new(): the empty document
EmptyDoc == [w \in {"ptr", "len"} |-> 0]

\* The document with content d
Doc(d) == [w \in {"ptr", "len"} |-> d]

\* A handler that has not called read_graph. Of its call is kept: the latest
\* document that a publish_graph call had published, or a read_graph call
\* had returned, when it began (floor), and the document it returned (got)
NoReads == [calls |-> 0, floor |-> 0, got |-> EmptyDoc]

\* A faulty variant of live_initial: the initial value is true
live_initial_true == TRUE

\* let live = Arc::new(RwLock::new(false));
live_initial == FALSE

\* A faulty variant of ready_initial: the initial value is true
ready_initial_true == TRUE

\* let ready = Arc::new(RwLock::new(false));
ready_initial == FALSE

\* The fields graph::State::new is given
StateNew ==
    [json_graph |-> EmptyDoc, secondary_metadata |-> 0,
     live |-> live_initial, ready |-> ready_initial]

\* A faulty variant of RefresherHandle: the thread gets a copy of the content
RefresherHandleCopy(h) == "copy"

\* let graph_state = state.clone(): a handle to the same fields
RefresherHandle(h) == h

\* let status_state = state.clone(), main_state = state.clone(), public_state = state
ListenerHandle(h) == h

\* is_live() and is_ready(), as a request handler of a server reads them
is_live == store[ListenerHandle(State)].live

is_ready == store[ListenerHandle(State)].ready

\* A faulty variant of LockFree: a writer is admitted only while a reader
\* holds the lock
LockFreeForWriterWithReaders(lock, writing) ==
    IF writing THEN lock.readers # {} /\ ~lock.writer ELSE ~lock.writer

\* A faulty variant of LockFree: a reader is admitted while the writer holds the lock
LockFreeIgnoringWriter(lock, writing) == IF writing THEN lock.readers = {} /\ ~lock.writer ELSE TRUE

\* RwLock: read() while no writer holds it, write() while nobody holds it
LockFree(lock, writing) ==
    IF writing THEN lock.readers = {} /\ ~lock.writer ELSE ~lock.writer

-----------------------------------------------------------------------------
Init ==
    /\ pc = "assemble"
    /\ exit_error = NoError
    /\ metrics_prefix = METRICS_PREFIX
    /\ metrics_required = {}
    /\ registry = {}
    /\ plugins_built = FALSE
    /\ graph_registered = FALSE
    /\ gate_log = <<>>
    /\ handles = [c \in {"graph"} \cup Listeners |-> NoHandle]
    /\ store = [h \in StoreIds |-> StateNew]
    /\ json_lock = [h \in StoreIds |-> [writer |-> FALSE, readers |-> {}]]
    /\ published = {}
    /\ r_pc = "none"
    /\ r_doc = 0
    /\ r_pos = 0
    /\ srv = [l \in Listeners |-> "unbound"]
    /\ last_response = NoResponse
    /\ rd_pc = [r \in Readers |-> "idle"]
    /\ rd_buf = [r \in Readers |-> <<>>]
    /\ rd_hist = [r \in Readers |-> NoReads]
    /\ path_prefix = ""
    /\ request = NoRequest
    /\ span = "none"
    /\ current = "none"


-----------------------------------------------------------------------------
(* main *)

\* The process is alive: main has not returned
Running == pc \notin {"exit_ok", "exit_err"}

\* What belongs to the threads of the process: their positions and locals, and
\* the locks they hold
threads == <<json_lock, r_pc, r_doc, r_pos, rd_pc, rd_buf>>

\* The process ends: the graph scraper thread and the servers' workers end
\* with it, whatever they were doing
ExitProcess ==
    /\ r_pc' = IF r_pc = "none" THEN "none" ELSE "killed"
    /\ r_doc' = 0
    /\ r_pos' = 0
    /\ rd_pc' = [r \in Readers |-> "idle"]
    /\ rd_buf' = [r \in Readers |-> <<>>]
    /\ json_lock' = [h \in StoreIds |-> [writer |-> FALSE, readers |-> {}]]

\* `?`: main returns the error, and the process ends with a non-zero status
Fail(err) ==
    /\ pc' = "exit_err"
    /\ exit_error' = err
    /\ ExitProcess

\* What has happened so far, as the gate finds it
Snapshot ==
    [plugins_built |-> plugins_built, graph_registered |-> graph_registered,
     bound |-> {l \in Listeners : srv[l] # "unbound"}, spawned |-> r_pc # "none"]

\* config::AppSettings::assemble().context("could not assemble AppSettings")?
Assemble ==
    /\ pc = "assemble"
    /\ \/ /\ \E req \in SUBSET RequiredUniverse : metrics_required' = req
          /\ pc' = "new_registry"
          /\ UNCHANGED <<exit_error, threads>>
       \/ /\ Fail([kind |-> "settings"])
          /\ UNCHANGED metrics_required
    /\ UNCHANGED <<metrics_prefix, registry, plugins_built,
                   graph_registered, gate_log, handles, store, published,
                   srv, last_response, rd_hist, http>>

\* metrics::new_registry(Some(config::METRICS_PREFIX.to_string()))?
NewRegistry ==
    /\ pc = "new_registry"
    /\ \/ /\ registry' = {}
          /\ pc' = "init_tracer"
          /\ UNCHANGED <<exit_error, threads>>
       \/ /\ Fail([kind |-> "registry"])
          /\ UNCHANGED registry
    /\ UNCHANGED <<metrics_prefix, metrics_required, plugins_built,
                   graph_registered, gate_log, handles, store, published,
                   srv, last_response, rd_hist, http>>

\* init_tracer("graph-builder", settings.tracing_endpoint.clone())?
InitTracer ==
    /\ pc = "init_tracer"
    /\ \/ /\ pc' = "build_plugins"
          /\ UNCHANGED <<exit_error, threads>>
       \/ Fail([kind |-> "tracer"])
    /\ UNCHANGED <<metrics_prefix, metrics_required, registry,
                   plugins_built, graph_registered, gate_log, handles,
                   store, published, srv, last_response, rd_hist, http>>

\* settings.validate_and_build_plugins(Some(&registry))?: the plugins that are
\* built register their metrics on the registry
BuildPlugins ==
    /\ pc = "build_plugins"
    /\ \/ /\ \E fams \in SUBSET PluginFamilies : registry' = registry \cup fams
          /\ plugins_built' = TRUE
          /\ pc' = "gate"
          /\ UNCHANGED <<exit_error, threads>>
       \/ /\ Fail([kind |-> "plugins"])
          /\ UNCHANGED <<registry, plugins_built>>
    /\ UNCHANGED <<metrics_prefix, metrics_required, graph_registered,
                   gate_log, handles, store, published, srv, last_response, rd_hist, http>>

\* A faulty variant of GateOutcome: a failed gate is only reported, and main goes on
GateOutcomeContinue(res) ==
    /\ pc' = "new_state"
    /\ exit_error' = IF res.ok THEN exit_error ELSE res
    /\ UNCHANGED threads

\* ensure_registered_metrics(..)?: Ok goes on to the shared state, Err is returned
GateOutcome(res) ==
    IF res.ok
    THEN pc' = "new_state" /\ UNCHANGED <<exit_error, threads>>
    ELSE Fail(res)

\* ensure_registered_metrics(&registry, config::METRICS_PREFIX, &settings.metrics_required)?
Gate ==
    /\ pc = "gate"
    /\ \E order \in Orders(metrics_required) :
          LET res == ensure_registered_metrics(registry, metrics_prefix, order)
          IN /\ GateOutcome(res)
             /\ gate_log' = Append(gate_log, [seen |-> Snapshot, result |-> res])
    /\ UNCHANGED <<metrics_prefix, metrics_required, registry,
                   plugins_built, graph_registered, handles, store,
                   published, srv, last_response, rd_hist, http>>

\* let state = { .. graph::State::new(json_graph, .., live, ready, .., secondary_metadata) }
NewState ==
    /\ pc = "new_state"
    /\ store' = [h \in StoreIds |-> StateNew]
    /\ json_lock' = [h \in StoreIds |-> [writer |-> FALSE, readers |-> {}]]
    /\ pc' = "spawn"
    /\ UNCHANGED <<exit_error, metrics_prefix, metrics_required, registry,
                   plugins_built, graph_registered, gate_log, handles, published,
                   r_pc, r_doc, r_pos, srv, last_response, rd_hist, http, rd_pc, rd_buf>>

\* let graph_state = state.clone(); thread::spawn(move || graph::run(&settings, &graph_state))
SpawnScraper ==
    /\ pc = "spawn"
    /\ handles' = [handles EXCEPT !["graph"] = RefresherHandle(State)]
    /\ r_pc' = "spawned"
    /\ pc' = "register_metrics"
    /\ UNCHANGED <<exit_error, metrics_prefix, metrics_required, registry,
                   plugins_built, graph_registered, gate_log, store, json_lock,
                   published, r_doc, r_pos, srv, last_response, rd_hist, http, rd_pc, rd_buf>>

\* graph::register_metrics(state.registry())?
RegisterMetrics ==
    /\ pc = "register_metrics"
    /\ \/ /\ registry' = registry \cup GraphFamilies
          /\ graph_registered' = TRUE
          /\ pc' = "bind_status"
          /\ UNCHANGED <<exit_error, threads>>
       \/ /\ Fail([kind |-> "register_metrics"])
          /\ UNCHANGED <<registry, graph_registered>>
    /\ UNCHANGED <<metrics_prefix, metrics_required, plugins_built,
                   gate_log, handles, store, published, srv, last_response, rd_hist, http>>

\* The statement that follows the bind of listener l
AfterBind(l) ==
    CASE l = "status" -> "bind_main"
      [] l = "main" -> "bind_public"
      [] l = "public" -> "join"

\* HttpServer::new(move || App::new() ..).bind(addr)?.run(): the closure holds
\* a clone of `state`; bind opens the socket or fails; run builds the server
Bind(l) ==
    /\ pc = "bind_" \o l
    /\ \/ /\ handles' = [handles EXCEPT ![l] = ListenerHandle(State)]
          /\ srv' = [srv EXCEPT ![l] = "created"]
          /\ pc' = AfterBind(l)
          /\ UNCHANGED <<exit_error, threads>>
       \/ /\ Fail([kind |-> "bind", listener |-> l])
          /\ UNCHANGED <<handles, srv>>
    /\ UNCHANGED <<metrics_prefix, metrics_required, registry,
                   plugins_built, graph_registered, gate_log, store,
                   published, last_response, rd_hist, http>>

MainNext ==
    \/ Assemble
    \/ NewRegistry
    \/ InitTracer
    \/ BuildPlugins
    \/ Gate
    \/ NewState
    \/ SpawnScraper
    \/ RegisterMetrics
    \/ \E l \in Listeners : Bind(l)

-----------------------------------------------------------------------------
(* graph::run, the loop of the graph scraper thread *)

\* The fields the thread works on
G == handles["graph"]

\* graph::run is entered
RefresherStart ==
    /\ Running
    /\ r_pc = "spawned"
    /\ r_pc' = "loop"
    /\ UNCHANGED <<pc, exit_error, metrics_prefix, metrics_required, registry,
                   plugins_built, graph_registered, gate_log, handles, store,
                   json_lock, published, r_doc, r_pos, srv, last_response, rd_hist, http, rd_pc, rd_buf>>

\* set_live(true), once the loop runs
SetLive ==
    /\ Running
    /\ r_pc = "loop"
    /\ store' = [store EXCEPT ![G].live = TRUE]
    /\ r_pc' = "cycle"
    /\ UNCHANGED <<pc, exit_error, metrics_prefix, metrics_required, registry,
                   plugins_built, graph_registered, gate_log, handles,
                   json_lock, published, r_doc, r_pos, srv, last_response, rd_hist, http, rd_pc, rd_buf>>

\* A cycle whose plugin pipeline yields the document d
Pipeline(d) ==
    /\ Running
    /\ r_pc = "cycle"
    /\ r_doc' = d
    /\ r_pc' = "publish_graph"
    /\ UNCHANGED <<pc, exit_error, metrics_prefix, metrics_required, registry,
                   plugins_built, graph_registered, gate_log, handles, store,
                   json_lock, published, r_pos, srv, last_response, rd_hist, http, rd_pc, rd_buf>>

\* A cycle whose plugin pipeline yields a document
PipelineOk == \E d \in 1..NumDocs : Pipeline(d)

\* A faulty variant of PipelineFailEffect: a failed cycle clears the documents
PipelineFailClears ==
    /\ store' = [store EXCEPT ![G].json_graph = EmptyDoc, ![G].secondary_metadata = 0]
    /\ r_pc' = "report_error"

\* What a failed cycle does: nothing is published, the error is reported next
PipelineFailEffect ==
    /\ r_pc' = "report_error"
    /\ UNCHANGED store

\* A cycle whose plugin pipeline fails
PipelineFail ==
    /\ Running
    /\ r_pc = "cycle"
    /\ PipelineFailEffect
    /\ UNCHANGED <<pc, exit_error, metrics_prefix, metrics_required, registry,
                   plugins_built, graph_registered, gate_log, handles,
                   json_lock, published, r_doc, r_pos, srv, last_response, rd_hist, http, rd_pc, rd_buf>>

\* The error of a failed cycle is logged, and the loop goes on
ReportError ==
    /\ Running
    /\ r_pc = "report_error"
    /\ r_pc' = "wait"
    /\ UNCHANGED <<pc, exit_error, metrics_prefix, metrics_required, registry,
                   plugins_built, graph_registered, gate_log, handles, store,
                   json_lock, published, r_doc, r_pos, srv, last_response, rd_hist, http, rd_pc, rd_buf>>

\* publish_graph(doc): the write lock is taken
PublishLock ==
    /\ Running
    /\ r_pc = "publish_graph"
    /\ LockFree(json_lock[G], TRUE)
    /\ json_lock' = [json_lock EXCEPT ![G].writer = TRUE]
    /\ r_pos' = 0
    /\ r_pc' = "write"
    /\ UNCHANGED <<pc, exit_error, metrics_prefix, metrics_required, registry,
                   plugins_built, graph_registered, gate_log, handles, store,
                   published, r_doc, srv, last_response, rd_hist, http, rd_pc, rd_buf>>

\* publish_graph(doc): the next word of the value is replaced
PublishWrite ==
    /\ Running
    /\ r_pc = "write"
    /\ r_pos < Len(Words)
    /\ store' = [store EXCEPT ![G].json_graph[Words[r_pos + 1]] = r_doc]
    /\ r_pos' = r_pos + 1
    /\ UNCHANGED <<pc, exit_error, metrics_prefix, metrics_required, registry,
                   plugins_built, graph_registered, gate_log, handles,
                   json_lock, published, r_pc, r_doc, srv, last_response, rd_hist, http, rd_pc, rd_buf>>

\* publish_graph(doc): the write lock is released and the call returns
PublishUnlock ==
    /\ Running
    /\ r_pc = "write"
    /\ r_pos = Len(Words)
    /\ json_lock' = [json_lock EXCEPT ![G].writer = FALSE]
    /\ published' = published \cup {r_doc}
    /\ r_pos' = 0
    /\ r_pc' = "publish_secondary"
    /\ UNCHANGED <<pc, exit_error, metrics_prefix, metrics_required, registry,
                   plugins_built, graph_registered, gate_log, handles, store,
                   r_doc, srv, last_response, rd_hist, http, rd_pc, rd_buf>>

\* publish_secondary_metadata(doc), under the field's own lock
PublishSecondary ==
    /\ Running
    /\ r_pc = "publish_secondary"
    /\ store' = [store EXCEPT ![G].secondary_metadata = r_doc]
    /\ r_pc' = "set_ready"
    /\ UNCHANGED <<pc, exit_error, metrics_prefix, metrics_required, registry,
                   plugins_built, graph_registered, gate_log, handles,
                   json_lock, published, r_doc, r_pos, srv, last_response, rd_hist, http, rd_pc, rd_buf>>

\* set_ready(true), after the documents of a successful cycle are published
SetReady ==
    /\ Running
    /\ r_pc = "set_ready"
    /\ store' = [store EXCEPT ![G].ready = TRUE]
    /\ r_doc' = 0
    /\ r_pc' = "wait"
    /\ UNCHANGED <<pc, exit_error, metrics_prefix, metrics_required, registry,
                   plugins_built, graph_registered, gate_log, handles,
                   json_lock, published, r_pos, srv, last_response, rd_hist, http, rd_pc, rd_buf>>

\* The pause between two cycles ends
NextCycle ==
    /\ Running
    /\ r_pc = "wait"
    /\ r_pc' = "cycle"
    /\ UNCHANGED <<pc, exit_error, metrics_prefix, metrics_required, registry,
                   plugins_built, graph_registered, gate_log, handles, store,
                   json_lock, published, r_doc, r_pos, srv, last_response, rd_hist, http, rd_pc, rd_buf>>

\* A faulty variant of ScraperEnded: main waits for the thread and returns an
\* error when it has ended
ScraperEndedFatal ==
    /\ r_pc' = "dead"
    /\ pc' = "exit_err"
    /\ exit_error' = [kind |-> "scraper"]
    /\ UNCHANGED <<store, srv, json_lock, r_doc, r_pos, rd_pc, rd_buf>>

\* thread::spawn(..); with the JoinHandle dropped: the thread is detached, and
\* when it ends nothing waits for it or is told
ScraperEnded ==
    /\ r_pc' = "dead"
    /\ UNCHANGED <<pc, exit_error, store, srv, json_lock, r_doc, r_pos, rd_pc, rd_buf>>

\* An unrecoverable fault inside a cycle ends the thread
RefresherPanic ==
    /\ Running
    /\ r_pc = "cycle"
    /\ ScraperEnded
    /\ UNCHANGED <<metrics_prefix, metrics_required, registry,
                   plugins_built, graph_registered, gate_log, handles,
                   published, last_response, rd_hist, http>>

\* The steps the thread takes by itself
RefresherNext ==
    \/ RefresherStart
    \/ SetLive
    \/ PipelineOk
    \/ PipelineFail
    \/ ReportError
    \/ PublishLock
    \/ PublishWrite
    \/ PublishUnlock
    \/ PublishSecondary
    \/ SetReady
    \/ NextCycle

-----------------------------------------------------------------------------
(* The three servers and their request handlers *)

\* A faulty variant of Serving: a server accepts connections from run() on
ServingFromRun(l) == Running /\ srv[l] = "created"

\* A server accepts and answers requests once its future is polled, which
\* try_join3(..).await does, and until it resolves
Serving(l) == pc = "join" /\ srv[l] = "created"

\* A faulty variant of try_join3: a select, which resolves as soon as one of
\* the three futures has resolved
select3(s) ==
    IF \E l \in Listeners : s[l] = "err" THEN "err"
    ELSE IF \E l \in Listeners : s[l] = "ok" THEN "ok" ELSE "pending"

\* A faulty variant of try_join3: join3, which waits for all three futures
join3(s) ==
    IF \E l \in Listeners : s[l] \notin {"ok", "err"} THEN "pending"
    ELSE IF \E l \in Listeners : s[l] = "err" THEN "err" ELSE "ok"

\* future::try_join3(metrics_server, main_server, public_server): what the
\* joined future resolves to, given what its three futures have resolved to
try_join3(s) ==
    IF \E l \in Listeners : s[l] = "err" THEN "err"
    ELSE IF \A l \in Listeners : s[l] = "ok" THEN "ok" ELSE "pending"

\* future::try_join3(..).await?; Ok(()): main polls the joined future, and in
\* that poll the future of server l resolves to `outcome` ("err": its run loop
\* ended with an error; "ok": it was shut down)
Join(l, outcome) ==
    /\ Serving(l)
    /\ srv' = [srv EXCEPT ![l] = outcome]
    /\ LET joined == try_join3(srv')
       IN CASE joined = "err" -> Fail([kind |-> "listener", listener |-> l])
            [] joined = "ok" -> pc' = "exit_ok" /\ ExitProcess /\ UNCHANGED exit_error
            [] OTHER -> UNCHANGED <<pc, exit_error, threads>>
    /\ UNCHANGED <<metrics_prefix, metrics_required, registry, plugins_built,
                   graph_registered, gate_log, handles, store, published, last_response, rd_hist, http>>

\* The fields the handlers of the primary server work on
M == handles["main"]

\* read_graph() in a handler of GET {prefix}/graph: the read lock is taken
ReadLock(r) ==
    /\ Serving("main")
    /\ rd_pc[r] = "idle"
    /\ LockFree(json_lock[M], FALSE)
    /\ json_lock' = [json_lock EXCEPT ![M].readers = @ \cup {r}]
    /\ rd_pc' = [rd_pc EXCEPT ![r] = "copy"]
    /\ rd_buf' = [rd_buf EXCEPT ![r] = <<>>]
    /\ UNCHANGED <<pc, exit_error, metrics_prefix, metrics_required, registry,
                   plugins_built, graph_registered, gate_log, handles, store,
                   published, r_pc, r_doc, r_pos, srv, last_response, http>>

\* A handler calls read_graph()
ReadBegin(r) == ReadLock(r) /\ UNCHANGED rd_hist

\* read_graph(): the next word of the value is copied
ReadCopy(r) ==
    /\ Running
    /\ rd_pc[r] = "copy"
    /\ Len(rd_buf[r]) < Len(Words)
    /\ rd_buf' = [rd_buf EXCEPT ![r] = Append(@, store[M].json_graph[Words[Len(@) + 1]])]
    /\ UNCHANGED <<pc, exit_error, metrics_prefix, metrics_required, registry,
                   plugins_built, graph_registered, gate_log, handles, store,
                   json_lock, published, r_pc, r_doc, r_pos, srv, last_response, rd_hist, http, rd_pc>>

\* The String value whose words a handler has copied
Copied(buf) == [w \in {"ptr", "len"} |-> IF w = "ptr" THEN buf[1] ELSE buf[2]]

\* read_graph(): the read lock is released and the copy is returned; the
\* handler answers the request with it
ReadUnlock(r) ==
    /\ Running
    /\ rd_pc[r] = "copy"
    /\ Len(rd_buf[r]) = Len(Words)
    /\ json_lock' = [json_lock EXCEPT ![M].readers = @ \ {r}]
    /\ last_response' = [listener |-> "main", body |-> Copied(rd_buf[r])]
    /\ rd_pc' = [rd_pc EXCEPT ![r] = "idle"]
    /\ rd_buf' = [rd_buf EXCEPT ![r] = <<>>]
    /\ UNCHANGED <<pc, exit_error, metrics_prefix, metrics_required, registry,
                   plugins_built, graph_registered, gate_log, handles, store,
                   published, r_pc, r_doc, r_pos, srv, http>>

\* A call of read_graph() returns
ReadEnd(r) == ReadUnlock(r) /\ UNCHANGED rd_hist

\* A request on the status or the public server is answered
Answer(l) ==
    /\ l \in {"status", "public"}
    /\ Serving(l)
    /\ last_response' = [listener |-> l]
    /\ UNCHANGED <<pc, exit_error, metrics_prefix, metrics_required, registry,
                   plugins_built, graph_registered, gate_log, handles, store,
                   json_lock, published, r_pc, r_doc, r_pos, srv, rd_pc, rd_buf,
                   rd_hist, http>>

ServerNext ==
    \/ \E l \in Listeners : Answer(l)
    \/ \E r \in Readers : ReadBegin(r)
    \/ \E r \in Readers : ReadCopy(r)
    \/ \E r \in Readers : ReadEnd(r)

-----------------------------------------------------------------------------
(* The process *)

\* main, which also polls the three servers' futures once it awaits their join
MainThread ==
    \/ MainNext
    \/ \E l \in Listeners : Join(l, "err")
    \/ \E l \in Listeners : Join(l, "ok")

Next ==
    \/ MainThread
    \/ RefresherNext
    \/ RefresherPanic
    \/ ServerNext

Spec == Init /\ [][Next]_vars

\* The threads are scheduled fairly: main and the graph scraper thread each
\* take their next step when they can
FairSpec == Spec /\ WF_vars(MainNext) /\ WF_vars(RefresherNext)

-----------------------------------------------------------------------------
(* ensure_registered_metrics on its own: main at the gate, for every registry, *)
(* prefix and set of required names of a small universe                        *)

GateFamilyNames == {"p_a", "p_b", "p_a_b", "pa", "a"}

GateRequiredNames == {"a", "b", "a_b"}

GatePrefixes == {"p", "p_a"}

GateInit ==
    /\ pc = "gate"
    /\ exit_error = NoError
    /\ metrics_prefix \in GatePrefixes
    /\ metrics_required \in SUBSET GateRequiredNames
    /\ registry \in SUBSET {Family(n, "counter") : n \in GateFamilyNames}
    /\ plugins_built = TRUE
    /\ graph_registered = FALSE
    /\ gate_log = <<>>
    /\ handles = [c \in {"graph"} \cup Listeners |-> NoHandle]
    /\ store = [h \in StoreIds |-> StateNew]
    /\ json_lock = [h \in StoreIds |-> [writer |-> FALSE, readers |-> {}]]
    /\ published = {}
    /\ r_pc = "none"
    /\ r_doc = 0
    /\ r_pos = 0
    /\ srv = [l \in Listeners |-> "unbound"]
    /\ last_response = NoResponse
    /\ rd_pc = [r \in Readers |-> "idle"]
    /\ rd_buf = [r \in Readers |-> <<>>]
    /\ rd_hist = [r \in Readers |-> NoReads]
    /\ path_prefix = ""
    /\ request = NoRequest
    /\ span = "none"
    /\ current = "none"

GateNext == Gate

GateSpec == GateInit /\ [][GateNext]_vars

-----------------------------------------------------------------------------
(* The three apps: their routes, the handlers and the tracing wrapper *)

\* The listeners whose App has the wrap_fn that traces a request
Wrapped == {"main", "public"}

\* settings.mandatory_client_parameters, as State::new is given it
mandatory_params == {"channel"}

\* A faulty variant of StatusResources: /liveness is routed to serve_readiness
StatusResourcesLivenessToReadiness ==
    {[path |-> "/liveness", to |-> "serve_readiness"],
     [path |-> "/metrics", to |-> "metrics_serve"],
     [path |-> "/readiness", to |-> "serve_readiness"]}

\* A faulty variant of StatusResources: /readiness is routed to serve_liveness
StatusResourcesReadinessToLiveness ==
    {[path |-> "/liveness", to |-> "serve_liveness"],
     [path |-> "/metrics", to |-> "metrics_serve"],
     [path |-> "/readiness", to |-> "serve_liveness"]}

\* The resources of the status App, and the handler a GET of each is routed to
StatusResources ==
    {[path |-> "/liveness", to |-> "serve_liveness"],
     [path |-> "/metrics", to |-> "metrics_serve"],
     [path |-> "/readiness", to |-> "serve_readiness"]}

\* A faulty variant of MainResources: {prefix}/graph is routed to another handler
MainResourcesLegacyElsewhere(prefix) ==
    {[path |-> prefix \o "/v1/graph", to |-> "graph_index"],
     [path |-> prefix \o "/graph", to |-> "graph_data"]}

\* The resources of the primary App: format!("{}/v1/graph", app_prefix) and
\* format!("{}/graph", app_prefix), both routed to graph::index
MainResources(prefix) ==
    {[path |-> prefix \o "/v1/graph", to |-> "graph_index"],
     [path |-> prefix \o "/graph", to |-> "graph_index"]}

\* The resource of the public App: format!("{}/graph-data", public_app_prefix)
PublicResources(prefix) ==
    {[path |-> prefix \o "/graph-data", to |-> "graph_data"]}

Resources(l, prefix) ==
    CASE l = "status" -> StatusResources
      [] l = "main" -> MainResources(prefix)
      [] l = "public" -> PublicResources(prefix)

\* The handler the App of listener l routes a GET of `path` to: the one of the
\* resource with that path, the App's default service if there is none
Route(l, prefix, path) ==
    IF \E res \in Resources(l, prefix) : res.path = path
    THEN (CHOOSE res \in Resources(l, prefix) : res.path = path).to
    ELSE "default_service"

\* A response without a payload
Empty == [kind |-> "empty"]

\* status::serve_liveness: a success status if the state is live
serve_liveness(st) ==
    [status |-> IF st.live THEN "success" ELSE "failure", body |-> Empty]

\* status::serve_readiness: a success status if the state is ready
serve_readiness(st) ==
    [status |-> IF st.ready THEN "success" ELSE "failure", body |-> Empty]

\* metrics::serve: the registry in its exposition format
metrics_serve(st) == [status |-> "success", body |-> [kind |-> "metrics"]]

\* graph::index: the graph document, for a request that has the mandatory
\* parameters; an error otherwise
graph_index(st, query) ==
    IF mandatory_params \subseteq query
    THEN [status |-> "success", body |-> [kind |-> "graph", doc |-> st.json_graph]]
    ELSE [status |-> "bad_request", body |-> [kind |-> "error"]]

\* graph::graph_data: the secondary metadata document
graph_data(st) ==
    [status |-> "success", body |-> [kind |-> "graph_data", doc |-> st.secondary_metadata]]

\* What the service of listener l answers to a GET of `path` with the
\* parameters `query`, when the shared state is st
Service(l, prefix, path, query, st) ==
    LET to == Route(l, prefix, path)
    IN CASE to = "serve_liveness" -> serve_liveness(st)
         [] to = "serve_readiness" -> serve_readiness(st)
         [] to = "metrics_serve" -> metrics_serve(st)
         [] to = "graph_index" -> graph_index(st, query)
         [] to = "graph_data" -> graph_data(st)
         [] OTHER -> [status |-> "not_found", body |-> Empty]

\* The values of settings.path_prefix
PathPrefixes == {"", "/api"}

\* The paths and parameters requests come with
Paths(prefix) ==
    {"/liveness", "/readiness", "/metrics", prefix \o "/v1/graph",
     prefix \o "/graph", prefix \o "/graph-data", "/v1/graph/other"}

Queries == SUBSET {"channel", "arch"}

\* No service has been handed the request
NotSeen == [path |-> "none", query |-> {}]

\* A worker of the server of listener l takes a GET request off a connection
Accept(l, path, query) ==
    /\ Serving(l)
    /\ request.stage \in {"none", "done"}
    /\ request' = [listener |-> l, path |-> path, query |-> query,
                   stage |-> "accepted", calls |-> 0, polls |-> 0, cx |-> "none",
                   seen |-> NotSeen]
    /\ span' = "none"
    /\ current' = "none"
    /\ UNCHANGED <<pc, exit_error, metrics_prefix, metrics_required, registry,
                   plugins_built, graph_registered, gate_log, handles, store,
                   json_lock, published, r_pc, r_doc, r_pos, srv, last_response,
                   rd_pc, rd_buf, rd_hist, path_prefix>>

\* wrap_fn, up to its call of the service: get_context(&req), the span
\* "request" is started under it and tagged with req.path() and
\* req.headers(), mark_span_as_active makes it the span of the current
\* context, and cx = ot_context::current() captures that context
WrapFnEnter ==
    /\ request.listener \in Wrapped
    /\ request.stage = "accepted"
    /\ span' = "started"
    /\ current' = "request"
    /\ request' = [request EXCEPT !.stage = "wrap_fn", !.cx = current']
    /\ UNCHANGED <<pc, exit_error, metrics_prefix, metrics_required, registry,
                   plugins_built, graph_registered, gate_log, handles, store,
                   json_lock, published, r_pc, r_doc, r_pos, srv, last_response,
                   rd_pc, rd_buf, rd_hist, path_prefix>>

\* A faulty variant of srv_call: the request is handed on with another path
srv_call_rewritten(r) ==
    [r EXCEPT !.stage = "call", !.calls = @ + 1,
              !.seen = [path |-> "/", query |-> r.query]]

\* srv.call(req): the request is moved into the service, which routes it and
\* builds the future of the handler
srv_call(r) ==
    [r EXCEPT !.stage = "call", !.calls = @ + 1,
              !.seen = [path |-> r.path, query |-> r.query]]

\* A faulty variant of with_context: the future runs in whatever context the
\* thread has when it is polled
without_context(cx) == "none"

\* FutureExt::with_context(cx): the future attaches cx for each of its polls
with_context(cx) == cx

\* wrap_fn: srv.call(req), while _active_span is alive
WrapFnCall ==
    /\ request.listener \in Wrapped
    /\ request.stage = "wrap_fn"
    /\ request' = srv_call(request)
    /\ UNCHANGED <<pc, exit_error, metrics_prefix, metrics_required, registry,
                   plugins_built, graph_registered, gate_log, handles, store,
                   json_lock, published, r_pc, r_doc, r_pos, srv, last_response,
                   rd_pc, rd_buf, rd_hist, path_prefix, span, current>>

\* wrap_fn returns the future .with_context(cx): _active_span is dropped,
\* which restores the context the thread had before, and the span lives on
\* in the context the future holds, if it holds it
WrapFnReturn ==
    /\ request.listener \in Wrapped
    /\ request.stage = "call"
    /\ request' = [request EXCEPT !.stage = "pending", !.cx = with_context(@)]
    /\ current' = "none"
    /\ span' = IF request'.cx = "request" THEN span ELSE "ended"
    /\ UNCHANGED <<pc, exit_error, metrics_prefix, metrics_required, registry,
                   plugins_built, graph_registered, gate_log, handles, store,
                   json_lock, published, r_pc, r_doc, r_pos, srv, last_response,
                   rd_pc, rd_buf, rd_hist, path_prefix>>

\* The status App has no wrap_fn: its service is called with the request as
\* it came
ServiceCall ==
    /\ request.listener \in Listeners \ Wrapped
    /\ request.stage = "accepted"
    /\ request' = [srv_call(request) EXCEPT !.stage = "pending"]
    /\ UNCHANGED <<pc, exit_error, metrics_prefix, metrics_required, registry,
                   plugins_built, graph_registered, gate_log, handles, store,
                   json_lock, published, r_pc, r_doc, r_pos, srv, last_response,
                   rd_pc, rd_buf, rd_hist, path_prefix, span, current>>

\* The worker polls the future of the request: a future with a context
\* attaches it for the time of the poll
PollEnter ==
    /\ request.listener \in Listeners
    /\ request.stage = "pending"
    /\ request' = [request EXCEPT !.stage = "polling"]
    /\ current' = request.cx
    /\ UNCHANGED <<pc, exit_error, metrics_prefix, metrics_required, registry,
                   plugins_built, graph_registered, gate_log, handles, store,
                   json_lock, published, r_pc, r_doc, r_pos, srv, last_response,
                   rd_pc, rd_buf, rd_hist, path_prefix, span>>

\* The poll returns Pending: the context of before the poll is restored
PollPending ==
    /\ request.listener \in Listeners
    /\ request.stage = "polling"
    /\ request.polls < MaxPolls
    /\ request' = [request EXCEPT !.stage = "pending", !.polls = @ + 1]
    /\ current' = "none"
    /\ UNCHANGED <<pc, exit_error, metrics_prefix, metrics_required, registry,
                   plugins_built, graph_registered, gate_log, handles, store,
                   json_lock, published, r_pc, r_doc, r_pos, srv, last_response,
                   rd_pc, rd_buf, rd_hist, path_prefix, span>>

\* The poll returns Ready: the handler has read the shared state and built
\* its response, an error response included, for the request the service was
\* handed; the response is sent and the future is dropped, and with it the
\* context that holds the span
PollReady ==
    /\ request.listener \in Listeners
    /\ request.stage = "polling"
    /\ LET resp == Service(request.listener, path_prefix, request.seen.path,
                           request.seen.query, store[handles[request.listener]])
       IN last_response' = [listener |-> request.listener, status |-> resp.status,
                            body |-> resp.body]
    /\ request' = [request EXCEPT !.stage = "done"]
    /\ current' = "none"
    /\ span' = IF span = "started" THEN "ended" ELSE span
    /\ UNCHANGED <<pc, exit_error, metrics_prefix, metrics_required, registry,
                   plugins_built, graph_registered, gate_log, handles, store,
                   json_lock, published, r_pc, r_doc, r_pos, srv,
                   rd_pc, rd_buf, rd_hist, path_prefix>>

\* The state a request finds: the three servers serve, and the flags and the
\* documents of the shared state have any of the values State::new can be
\* given (mock_state(is_live, is_ready) of the tests) or a publish can set
HandlerInit ==
    /\ pc = "join"
    /\ exit_error = NoError
    /\ metrics_prefix = METRICS_PREFIX
    /\ metrics_required = {}
    /\ registry = PluginFamilies \cup GraphFamilies
    /\ plugins_built = TRUE
    /\ graph_registered = TRUE
    /\ gate_log = <<[seen |-> [plugins_built |-> TRUE, graph_registered |-> FALSE,
                               bound |-> {}, spawned |-> FALSE],
                    result |-> Ok]>>
    /\ handles = [c \in {"graph"} \cup Listeners |->
                    IF c = "graph" THEN RefresherHandle(State) ELSE ListenerHandle(State)]
    /\ \E is_live_value, is_ready_value \in BOOLEAN, d \in 0..NumDocs :
          store = [h \in StoreIds |->
                     IF h = State
                     THEN [json_graph |-> Doc(d), secondary_metadata |-> d,
                           live |-> is_live_value, ready |-> is_ready_value]
                     ELSE StateNew]
    /\ json_lock = [h \in StoreIds |-> [writer |-> FALSE, readers |-> {}]]
    /\ published = {}
    /\ r_pc = "spawned"
    /\ r_doc = 0
    /\ r_pos = 0
    /\ srv = [l \in Listeners |-> "created"]
    /\ last_response = NoResponse
    /\ rd_pc = [r \in Readers |-> "idle"]
    /\ rd_buf = [r \in Readers |-> <<>>]
    /\ rd_hist = [r \in Readers |-> NoReads]
    /\ path_prefix \in PathPrefixes
    /\ request = NoRequest
    /\ span = "none"
    /\ current = "none"

HandlerNext ==
    \/ \E l \in Listeners, path \in Paths(path_prefix), query \in Queries :
          Accept(l, path, query)
    \/ WrapFnEnter
    \/ WrapFnCall
    \/ WrapFnReturn
    \/ ServiceCall
    \/ PollEnter
    \/ PollPending
    \/ PollReady

HandlerSpec == HandlerInit /\ [][HandlerNext]_vars

-----------------------------------------------------------------------------
(* read_graph and publish_graph side by side: the graph scraper thread       *)
(* publishes the documents 1, 2, .. in this order, one per cycle, while the  *)
(* handlers of several requests call read_graph, each once as graph::index   *)
(* does, at any time and in any order                                        *)

ConcReaders == 1..NumConcurrent

\* A cycle whose plugin pipeline yields the next document
PipelineFresh ==
    /\ Cardinality(published) < NumDocs
    /\ Pipeline(Cardinality(published) + 1)

\* The largest number of a set of numbers, 0 if it has none
Max(S) == IF S = {} THEN 0 ELSE CHOOSE n \in S : \A m \in S : m <= n

\* The latest document a completed call has published or returned
LatestSeen ==
    Max({Cardinality(published)}
        \cup {rd_hist[q].got.len : q \in {q \in DOMAIN rd_hist : rd_hist[q].calls > 0 /\ rd_pc[q] = "idle"}})

\* The handler of a request calls read_graph(): the call begins
ReadCall(r) ==
    /\ rd_hist[r].calls = 0
    /\ ReadLock(r)
    /\ rd_hist' = [rd_hist EXCEPT ![r].calls = @ + 1, ![r].floor = LatestSeen]

\* The call returns
ReadReturn(r) ==
    /\ ReadUnlock(r)
    /\ rd_hist' = [rd_hist EXCEPT ![r].got = Copied(rd_buf[r])]

\* The loop of the graph scraper thread runs, at the start of a cycle, the
\* three servers serve, and nothing is published yet
ConcInit ==
    /\ pc = "join"
    /\ exit_error = NoError
    /\ metrics_prefix = METRICS_PREFIX
    /\ metrics_required = {}
    /\ registry = PluginFamilies \cup GraphFamilies
    /\ plugins_built = TRUE
    /\ graph_registered = TRUE
    /\ gate_log = <<[seen |-> [plugins_built |-> TRUE, graph_registered |-> FALSE,
                               bound |-> {}, spawned |-> FALSE],
                    result |-> Ok]>>
    /\ handles = [c \in {"graph"} \cup Listeners |->
                    IF c = "graph" THEN RefresherHandle(State) ELSE ListenerHandle(State)]
    /\ store = [h \in StoreIds |->
                  IF h = handles["graph"] THEN [StateNew EXCEPT !.live = TRUE] ELSE StateNew]
    /\ json_lock = [h \in StoreIds |-> [writer |-> FALSE, readers |-> {}]]
    /\ published = {}
    /\ r_pc = "cycle"
    /\ r_doc = 0
    /\ r_pos = 0
    /\ srv = [l \in Listeners |-> "created"]
    /\ last_response = NoResponse
    /\ rd_pc = [r \in ConcReaders |-> "idle"]
    /\ rd_buf = [r \in ConcReaders |-> <<>>]
    /\ rd_hist = [r \in ConcReaders |-> NoReads]
    /\ path_prefix = ""
    /\ request = NoRequest
    /\ span = "none"
    /\ current = "none"

\* The steps of the graph scraper thread
ConcRefresher ==
    \/ PipelineFresh
    \/ PublishLock
    \/ PublishWrite
    \/ PublishUnlock
    \/ PublishSecondary
    \/ SetReady
    \/ NextCycle

\* The steps of handler r
ConcReader(r) ==
    \/ ReadCall(r)
    \/ ReadCopy(r)
    \/ ReadReturn(r)

ConcNext ==
    \/ ConcRefresher
    \/ \E r \in ConcReaders : ConcReader(r)

ConcSpec == ConcInit /\ [][ConcNext]_vars

\* The threads are scheduled fairly: the graph scraper thread and each
\* handler take their next step when they can
FairConcSpec ==
    /\ ConcSpec
    /\ WF_vars(ConcRefresher)
    /\ \A r \in ConcReaders : WF_vars(ConcReader(r))

-----------------------------------------------------------------------------
(* Properties *)

\* The positions of graph::run that lie after its set_live(true)
AfterSetLive ==
    {"cycle", "report_error", "publish_graph", "write", "publish_secondary",
     "set_ready", "wait", "dead"}

\* C1: whatever the interleaving of publish_graph and read_graph calls, a
\* read_graph returns the initial empty document or the argument of a
\* publish_graph call that has completed, never a partly written value.
C1_ReadReturnsWholeDocument ==
    last_response.listener = "main" =>
        last_response.body \in {EmptyDoc} \cup {Doc(d) : d \in published}

\* A read returned the second document while the publish of the first one is
\* halfway through its words
C1_Witness ==
    /\ last_response.listener = "main"
    /\ last_response.body = Doc(2)
    /\ r_pc = "write" /\ r_pos = 1 /\ r_doc = 1
    /\ store[State].json_graph # Doc(1) /\ store[State].json_graph # Doc(2)

\* C2: is_ready() is false as long as no successful cycle has published its
\* documents, and once it is true it is true in every later state, also when
\* the cycles that follow fail.
C2_ReadyAfterFirstSuccessForGood ==
    /\ [](is_ready => published # {} /\ store[State].secondary_metadata # 0)
    /\ [][is_ready => is_ready']_vars

\* The service is ready and the cycle that just ran has failed
C2_Witness ==
    /\ is_ready
    /\ r_pc = "report_error"

\* C3: is_live() is false in every state before the graph scraper thread's
\* first set_live(true) and true in every state after it, whatever is_ready()
\* says.
C3_LiveFromFirstSetLive ==
    /\ [](r_pc \in {"none", "spawned", "loop"} => ~is_live)
    /\ [](r_pc \in AfterSetLive => is_live)
    /\ [][is_live => is_live']_vars

\* The service is live and not ready
C3_Witness ==
    /\ is_live
    /\ ~is_ready
    /\ r_pc = "publish_secondary"

\* C4 as stated: once the loop of the graph scraper thread runs, is_live()
\* eventually becomes true, also when every cycle fails.
C4_LoopStartedLeadsToLive ==
    (r_pc = "loop") ~> is_live

\* C4, amended: once the loop of the graph scraper thread runs, is_live()
\* eventually becomes true, also when every cycle fails, unless the process
\* ends first (main returns the error of a bind or of a server).
C4_LoopStartedLeadsToLiveOrExit ==
    (r_pc = "loop") ~> (is_live \/ ~Running)

\* The service is live although no cycle has published anything and the last
\* one failed
C4_Witness ==
    /\ is_live
    /\ published = {}
    /\ r_pc = "report_error"
    /\ pc = "join"

\* C5: a cycle whose plugin pipeline fails leaves the graph document and the
\* secondary metadata document as they were, ends no server and not the
\* process, and the thread goes on: it reports the error, pauses and starts
\* the next cycle.
C5_FailedCycleKeepsDocuments ==
    /\ [][(r_pc = "cycle" /\ r_pc' = "report_error") =>
            /\ store'[State].json_graph = store[State].json_graph
            /\ store'[State].secondary_metadata = store[State].secondary_metadata
            /\ srv' = srv
            /\ pc' = pc]_vars
    /\ [][(r_pc = "report_error" /\ r_pc' # r_pc /\ pc' = pc) => r_pc' = "wait"]_vars
    /\ [][(r_pc = "wait" /\ r_pc' # r_pc /\ pc' = pc) => r_pc' = "cycle"]_vars
    /\ [](r_pc = "report_error" /\ Running => ENABLED ReportError)
    /\ [](r_pc = "wait" /\ Running => ENABLED NextCycle)

\* A cycle has failed after an earlier one published the first document, which
\* is still there, and all three servers run
C5_Witness ==
    /\ r_pc = "report_error"
    /\ store[State].json_graph = Doc(1)
    /\ store[State].secondary_metadata = 1
    /\ \A l \in Listeners : Serving(l)

\* C6: when the run loop of one of the three servers ends with an error, main
\* returns that error at once: the process ends with a non-zero status, and
\* it neither waits for the other two servers nor goes on without the one.
C6_ListenerErrorEndsProcess ==
    \A l \in Listeners :
        srv[l] = "err" =>
            /\ pc = "exit_err"
            /\ exit_error = [kind |-> "listener", listener |-> l]

\* The process ended with the error of the primary server while the other two
\* servers had not resolved
C6_Witness ==
    /\ pc = "exit_err"
    /\ srv["main"] = "err"
    /\ srv["status"] = "created"
    /\ srv["public"] = "created"

\* C7: when the bind of one of the three servers fails, the process ends with
\* a non-zero status and has not served: no server, also none bound before,
\* has answered a request.
C7_BindFailureBeforeServing ==
    exit_error.kind = "bind" =>
        /\ pc = "exit_err"
        /\ last_response = NoResponse

\* The bind of the public server failed after the status and the primary
\* server were bound
C7_Witness ==
    /\ exit_error = [kind |-> "bind", listener |-> "public"]
    /\ srv["status"] = "created"
    /\ srv["main"] = "created"

\* C8: the metrics gate is evaluated once, after the plugins and
\* graph::register_metrics have registered their metrics and before any
\* server is bound.
C8_GateAfterAllRegistrations ==
    /\ Len(gate_log) <= 1
    /\ pc \in {"new_state", "spawn", "register_metrics", "bind_status",
               "bind_main", "bind_public", "join", "exit_ok"} => Len(gate_log) = 1
    /\ \A i \in 1..Len(gate_log) :
          /\ gate_log[i].seen.plugins_built
          /\ gate_log[i].seen.graph_registered
          /\ gate_log[i].seen.bound = {}

\* C9: when the metrics gate fails, the process ends with that error, and no
\* server socket is bound and the graph scraper thread is not spawned, then
\* or later.
C9_GateFailureIsFatal ==
    \A i \in 1..Len(gate_log) :
        ~gate_log[i].result.ok =>
            /\ pc = "exit_err"
            /\ exit_error = gate_log[i].result
            /\ \A l \in Listeners : srv[l] = "unbound"
            /\ r_pc = "none"

\* The gate failed for a required metric that graph::register_metrics would
\* have registered
C9_Witness ==
    /\ Len(gate_log) = 1
    /\ ~gate_log[1].result.ok
    /\ gate_log[1].result.missing = "graph_metric"
    /\ pc = "exit_err"

\* C10: ensure_registered_metrics succeeds exactly when prefix + "_" + n is a
\* gathered family name for every required n (so for no required name too);
\* when it fails, the error names a required metric that is missing and holds
\* all the registered names. main goes on exactly when it succeeds.
C10_GateResult ==
    \A i \in 1..Len(gate_log) :
        LET res == gate_log[i].result
            names == {f.name : f \in registry}
            present(n) == (metrics_prefix \o "_" \o n) \in names
        IN /\ res.ok <=> \A n \in metrics_required : present(n)
           /\ ~res.ok =>
                 /\ res.missing \in metrics_required
                 /\ ~present(res.missing)
                 /\ res.registered = names
           /\ res.ok <=> pc = "new_state"

\* Three names are required, one of them is not registered, and the error
\* names it
C10_Witness ==
    /\ Len(gate_log) = 1
    /\ Cardinality(metrics_required) = 3
    /\ metrics_prefix = "p"
    /\ {f.name : f \in registry} = {"p_a", "p_b", "pa", "a"}
    /\ ~gate_log[1].result.ok
    /\ gate_log[1].result.missing = "a_b"

\* C11: a GET of /liveness on the status server is answered with a success
\* status exactly when is_live() is true when the handler runs, whatever the
\* ready flag is.
C11_LivenessSuccessIffLive ==
    (request.stage = "done" /\ request.listener = "status"
        /\ request.path = "/liveness") =>
        (last_response.status = "success" <=> is_live)

\* /liveness was answered with success in the state (live, not ready)
C11_Witness ==
    /\ request.stage = "done"
    /\ request.listener = "status"
    /\ request.path = "/liveness"
    /\ last_response.status = "success"
    /\ is_live /\ ~is_ready

\* C12: a GET of /readiness on the status server is answered with a success
\* status exactly when is_ready() is true when the handler runs, whatever the
\* live flag is.
C12_ReadinessSuccessIffReady ==
    (request.stage = "done" /\ request.listener = "status"
        /\ request.path = "/readiness") =>
        (last_response.status = "success" <=> is_ready)

\* /readiness was answered with a failure in the state (live, not ready)
C12_Witness ==
    /\ request.stage = "done"
    /\ request.listener = "status"
    /\ request.path = "/readiness"
    /\ last_response.status = "failure"
    /\ is_live /\ ~is_ready

\* A call of publish_graph or of read_graph is in progress
InCall == r_pc \in {"publish_graph", "write"} \/ \E r \in ConcReaders : rd_pc[r] = "copy"

\* A thread that is inside such a call takes a step
CallStep ==
    \/ PublishLock
    \/ PublishWrite
    \/ PublishUnlock
    \/ \E r \in ConcReaders : ReadCopy(r) \/ ReadReturn(r)

\* C13: with several handlers calling read_graph while publish_graph calls
\* are in progress, no state is a deadlock (while a call is in progress, a
\* thread inside a call can take a step), and under fair scheduling every
\* publish_graph call and every read_graph call returns, each read with a
\* whole document and not an error, and all the calls get made.
C13_ReadsAndPublishComplete ==
    /\ [](InCall => ENABLED CallStep)
    /\ (r_pc = "publish_graph") ~> (r_pc = "publish_secondary")
    /\ \A r \in ConcReaders :
          (rd_pc[r] = "copy") ~>
              (rd_pc[r] = "idle" /\ \E d \in 0..NumDocs : rd_hist[r].got = Doc(d))
    /\ <>[](/\ published = 1..NumDocs
            /\ \A r \in ConcReaders : rd_hist[r].calls > 0 /\ rd_pc[r] = "idle")

\* All the handlers are inside read_graph, one of them halfway through its
\* copy, while publish_graph waits for the lock
C13_Witness ==
    /\ \A r \in ConcReaders : rd_pc[r] = "copy"
    /\ Len(rd_buf[1]) = 1
    /\ r_pc = "publish_graph"
    /\ json_lock[State].readers = ConcReaders

\* C14: the publish_graph calls are ordered and the last one wins: a
\* read_graph call that began after a publish_graph call returned, through
\* another clone of the state handle than the one the publish went through,
\* returns the document of that publish or of a later one; and a read_graph
\* call that began after another one returned (so the successive calls of
\* one client too) does not return an earlier document than that one did.
C14_LastPublishWins ==
    \A r \in ConcReaders :
        (rd_hist[r].calls > 0 /\ rd_pc[r] = "idle") =>
            /\ \E d \in 0..NumDocs : rd_hist[r].got = Doc(d)
            /\ rd_hist[r].got.len >= rd_hist[r].floor

\* The second call began after the first call had returned the first
\* document and after the second publish had returned, and it returned the
\* second document
C14_Witness ==
    /\ rd_hist[1] = [calls |-> 1, floor |-> 1, got |-> Doc(1)]
    /\ rd_hist[2] = [calls |-> 1, floor |-> 2, got |-> Doc(2)]
    /\ rd_pc[1] = "idle" /\ rd_pc[2] = "idle"

\* C15: the tracing wrapper of the primary and the public App neither drops
\* nor alters a request: it always goes on to call the service, it calls it
\* once, with the request as it came, and the response has the status and the
\* payload the service gives for that request and state without the wrapper.
C15_WrapperKeepsRequestAndResponse ==
    request.listener \in Wrapped =>
        /\ request.stage = "accepted" => ENABLED WrapFnEnter
        /\ request.stage = "wrap_fn" => ENABLED WrapFnCall
        /\ request.stage \in {"call", "pending", "polling", "done"} =>
              /\ request.calls = 1
              /\ request.seen = [path |-> request.path, query |-> request.query]
        /\ request.stage = "done" =>
              LET direct == Service(request.listener, path_prefix, request.path,
                                    request.query, store[handles[request.listener]])
              IN /\ last_response.listener = request.listener
                 /\ last_response.status = direct.status
                 /\ last_response.body = direct.body

\* A request for the graph with its mandatory parameter went through the
\* wrapper and was answered with the second document, after a poll that was
\* not ready
C15_Witness ==
    /\ request.listener = "main"
    /\ request.stage = "done"
    /\ request.path = "/api/graph"
    /\ request.query = {"channel"}
    /\ request.polls = 1
    /\ span = "ended"
    /\ last_response = [listener |-> "main", status |-> "success",
                        body |-> [kind |-> "graph", doc |-> Doc(2)]]

\* C18: for a request on the primary or the public server, the span is
\* started before the service is called, it is the active span during the
\* call of the service and during every poll of its future, it is alive
\* between the polls, and it is ended when the response is produced, an error
\* response too; a request on the status server starts no span.
C18_SpanCoversHandling ==
    /\ request.listener \in Wrapped =>
          /\ request.calls > 0 => span # "none"
          /\ request.stage \in {"wrap_fn", "call", "polling"} =>
                span = "started" /\ current = "request"
          /\ request.stage = "pending" => span = "started"
          /\ request.stage = "done" => span = "ended"
    /\ request.listener \in Listeners \ Wrapped =>
          span = "none" /\ current = "none"

\* The future of a request for the graph that lacks the mandatory parameter
\* is polled a second time, under the span; the server's last response is the
\* error response of a request before it
C18_Witness ==
    /\ request.listener = "main"
    /\ request.stage = "polling"
    /\ request.polls = 1
    /\ request.query = {}
    /\ span = "started" /\ current = "request"
    /\ last_response = [listener |-> "main", status |-> "bad_request",
                        body |-> [kind |-> "error"]]

\* The two paths of the graph on the primary server
GraphPaths == {path_prefix \o "/v1/graph", path_prefix \o "/graph"}

\* C19: on the primary server {prefix}/v1/graph and {prefix}/graph are routed
\* to the same handler: the response to a GET of one of them has the status
\* and the payload the service gives for a GET of the other one with the same
\* parameters in the same state.
C19_GraphPathsAnsweredAlike ==
    /\ \A p, q \in GraphPaths : Route("main", path_prefix, p) = Route("main", path_prefix, q)
    /\ (request.stage = "done" /\ request.listener = "main" /\ request.path \in GraphPaths) =>
          \A p \in GraphPaths :
              LET other == Service("main", path_prefix, p, request.query,
                                   store[handles["main"]])
              IN /\ last_response.status = other.status
                 /\ last_response.body = other.body

\* A GET of {prefix}/v1/graph with both parameters was answered with the
\* first document
C19_Witness ==
    /\ request.stage = "done"
    /\ request.listener = "main"
    /\ path_prefix = "/api"
    /\ request.path = "/api/v1/graph"
    /\ request.query = {"channel", "arch"}
    /\ last_response = [listener |-> "main", status |-> "success",
                        body |-> [kind |-> "graph", doc |-> Doc(1)]]

\* C16: when the graph scraper thread ends unexpectedly, main does not
\* return and no server ends in that step; afterwards the live and ready
\* flags keep the values they had, the servers that main awaits answer
\* requests, and when main returns it is with what a server or a bind
\* returned, not because of the thread.
C16_ScraperDeathLeavesTheRest ==
    /\ [][(r_pc # "dead" /\ r_pc' = "dead") =>
            /\ pc' = pc /\ exit_error' = exit_error
            /\ srv' = srv
            /\ store' = store]_vars
    /\ [][r_pc = "dead" =>
            /\ store'[State].live = store[State].live
            /\ store'[State].ready = store[State].ready]_vars
    /\ [][(r_pc = "dead" /\ pc' # pc) =>
            \/ pc' = "exit_ok" /\ \A l \in Listeners : srv'[l] = "ok"
            \/ pc' = "exit_err" /\ exit_error'.kind \in {"register_metrics", "bind", "listener"}
            \/ pc' \in {"bind_status", "bind_main", "bind_public", "join"}]_vars
    /\ [](r_pc = "dead" /\ pc = "join" =>
            \A l \in Listeners : srv[l] = "created" =>
                IF l = "main" THEN \A r \in Readers : rd_pc[r] = "idle" => ENABLED ReadBegin(r)
                ELSE ENABLED Answer(l))

\* The thread ended after a successful cycle: the service stays live and
\* ready, the three servers run, and the primary server has answered with the
\* document of that cycle
C16_Witness ==
    /\ r_pc = "dead"
    /\ is_live /\ is_ready
    /\ pc = "join"
    /\ \A l \in Listeners : Serving(l)
    /\ last_response = [listener |-> "main", body |-> Doc(1)]
    /\ published = {1}

\* C17 as stated: when one of the three servers has completed, with success
\* or with failure, the join has completed and main has returned.
C17_AnyCompletionEndsServing ==
    (\E l \in Listeners : srv[l] \in {"ok", "err"}) => ~Running

\* C17, amended: the failure of any one of the three servers completes the
\* join, and main returns the error; the success of one does not: main goes
\* on awaiting the others, and returns Ok once all three have completed with
\* success.
C17_FailureOrAllSuccessEndsServing ==
    /\ (\E l \in Listeners : srv[l] = "err") <=>
          (pc = "exit_err" /\ exit_error.kind = "listener")
    /\ (\A l \in Listeners : srv[l] = "ok") <=> pc = "exit_ok"
    /\ ((\E l \in Listeners : srv[l] = "ok") /\ (\E l \in Listeners : srv[l] = "created")
           /\ exit_error.kind # "listener") =>
          /\ pc = "join"
          /\ \A l \in Listeners : srv[l] = "created" => Serving(l)

\* The status and the public server have completed with success, and the
\* primary server goes on serving: it has answered with the first document
C17_Witness ==
    /\ srv = [l \in Listeners |-> IF l = "main" THEN "created" ELSE "ok"]
    /\ pc = "join"
    /\ last_response = [listener |-> "main", body |-> Doc(1)]
    /\ rd_pc[1] = "copy"

\* The documents whose publish_graph call has completed
PublishedDocs == {Doc(d) : d \in published}

\* C20: in every state in which is_ready() is true, the graph document is a
\* published one unless a publish_graph call is replacing it under the lock
\* or the process ended during such a call
\* (and then each of its words is that of a published or of the new
\* document), and a read_graph call that returns in such a state, so every
\* call that began after is_ready() was seen true, returns a published
\* document, not the initial empty one; a step never makes a word of the
\* document empty again.
C20_ReadyMeansPublishedDocument ==
    /\ [](is_ready =>
            /\ (Running /\ ~json_lock[State].writer) =>
                  store[State].json_graph \in PublishedDocs
            /\ \A w \in {"ptr", "len"} : store[State].json_graph[w] # EmptyDoc[w])
    /\ [][\A r \in Readers :
            (is_ready /\ rd_pc[r] = "copy" /\ rd_pc'[r] = "idle" /\ pc' = pc) =>
                /\ last_response'.listener = "main"
                /\ last_response'.body \in PublishedDocs
                /\ last_response'.body # EmptyDoc]_vars
    /\ [][\A w \in {"ptr", "len"} :
            store[State].json_graph[w] # EmptyDoc[w] =>
                store'[State].json_graph[w] # EmptyDoc[w]]_vars

\* The service is ready, the second publish is halfway through its words, and
\* the last answer of the primary server was the first document
C20_Witness ==
    /\ is_ready
    /\ r_pc = "write" /\ r_pos = 1 /\ r_doc = 2
    /\ published = {1}
    /\ last_response = [listener |-> "main", body |-> Doc(1)]

=============================================================================
